---- MODULE Spec2Model ----
(***************************************************************************)
(* battery-notifier: the monitor loop of src/main.rs.                      *)
(*                                                                         *)
(* The main thread reads the battery once, installs the ctrl-c handler,    *)
(* and then loops: sleep, check the running flag, read the battery, show   *)
(* a state-change notification and/or a low-charge notification, store     *)
(* the new status.  The ctrl-c handler runs on its own thread and stores   *)
(* false into the shared atomic flag.                                      *)
(*                                                                         *)
(* Charge is an f32 fraction in the source; it is modelled in whole        *)
(* percent, so CRITICAL_CHARGE = 0.15 is 15 and `<=` keeps its meaning.    *)
(* The atomic flag is a single location: a store is visible to every       *)
(* later load.                                                             *)
(***************************************************************************)
EXTENDS Integers, Sequences, FiniteSets, TLC

\* ---------------------------------------------------------------- constants
CRITICAL_CHARGE == 15

\* ------------------------------------------------------------------- bounds
\* charge readings range over CRITICAL_CHARGE - Spread .. CRITICAL_CHARGE + Spread
Spread == 1
\* time_to_full readings: None, or k * TtfStep seconds for k in 1..MaxTtfK
MaxTtfK == 1
\* caps of the observation counters
MaxRun == 2
MaxFails == 2
MaxCount == 2

\* sample time_to_full, in seconds
TtfStep == 7500
\* the body of the notification is computed for every 0..MaxSecs
MaxSecs == 9000

Min(a, b) == IF a < b THEN a ELSE b

\* ------------------------------------------------------------------- values
\* battery::State
BatteryStates == {"Unknown", "Charging", "Discharging", "Empty", "Full"}

\* time_to_full is None, or the whole seconds that Duration::as_secs()
\* returns for the reading (lines 67-68)
NoTime == -1
TimesToFull == {NoTime} \cup {k * TtfStep : k \in 1..MaxTtfK}

Charges == (CRITICAL_CHARGE - Spread)..(CRITICAL_CHARGE + Spread)

\* struct BatteryStatus
BatteryStatus == [state : BatteryStates, time_to_full : TimesToFull, charge : Charges]

\* a binding that holds no value (before `let`, or after a move)
NoStatus == [state |-> "None", time_to_full |-> NoTime, charge |-> 0]

Terminal == {"done", "exit_err", "panic"}

\* process exit status of main
ExitCode(p) == IF p = "done" THEN 0 ELSE IF p = "exit_err" THEN 1 ELSE 101

VARIABLES
    pc,                 \* position of the main thread
    state,              \* `state`: the last stored BatteryStatus
    new_state,          \* `new_state`: this tick's reading
    is_low_notified,    \* `is_low_notified`
    running,            \* the AtomicBool shared with the handler
    handler_set,        \* ctrlc::set_handler succeeded
    \* observation variables (written by no branch of the program)
    tickRead,           \* outcome of this tick's read: "none", "ok", "err"
    tickReading,        \* the BatteryStatus this tick's read returned
    tickStateNotif,     \* state-change notifications handed to show() this tick
    tickLowNotif,       \* low-charge notifications handed to show() this tick
    tickShowErr,        \* a show() of this tick returned Err
    tickBody,           \* minutes in the body of this tick's state-change notification
    expectChange,       \* this tick's reading differs in state from the previous successful reading
    lastGoodState,      \* charging state of the most recent successful reading
    failStreak,         \* failed reads since the last completed tick
    lowRunLen,          \* completed ticks at or below the threshold since the last one above
    lowRunCount,        \* low-charge notifications since the last completed tick above the threshold
    lowTotal,           \* low-charge notifications so far (capped)
    startup,            \* "low"/"high": the initial reading, until a later tick follows a completed one
    cancelPc,           \* position of the main thread at the first cancellation request
    readsAfterCancel,   \* battery reads made after the first cancellation request
    notifsAfterCancel   \* notifications handed to show() after the first cancellation request

prog == <<pc, state, new_state, is_low_notified, running, handler_set>>
tickObs == <<tickRead, tickReading, tickStateNotif, tickLowNotif, tickShowErr, tickBody, expectChange>>
runObs == <<lastGoodState, failStreak, lowRunLen, lowRunCount, lowTotal>>
cancelObs == <<cancelPc, readsAfterCancel, notifsAfterCancel>>
vars == <<prog, tickObs, runObs, startup, cancelObs>>

Cancelled == cancelPc # "none"

\* ------------------------------------------------------- decision functions
\* variant: the comparison made on the charge field
StateChanged_Charge(new, old) == new.charge # old.charge

\* line 106: new_state.state != state.state
StateChanged(new, old) == new.state # old.state

\* a notification without body
NoBody == -1

\* variant: the total minutes, without the `% 60`
StateChangedBody_Total(ttc) == IF ttc = NoTime THEN NoBody ELSE ttc \div 60

\* lines 66-74 of get_battery_state_changed_notif: the minutes of the body
\* "{}m", (duration.as_secs() / 60) % 60, or no body when time_to_charge is None
StateChangedBody(ttc) == IF ttc = NoTime THEN NoBody ELSE (ttc \div 60) % 60

\* line 111: new_state.charge <= CRITICAL_CHARGE
IsLow(new) == new.charge <= CRITICAL_CHARGE

\* variant: the threshold test written with `<`
LowFires_Strict(new, flag) == new.charge < CRITICAL_CHARGE /\ ~flag

\* lines 111-113: the low-charge notification is shown
LowFires(new, flag) == IsLow(new) /\ ~flag

\* variant: line 114 missing, the flag is never set
NextLowFlag_NoSet(new, flag) == IF IsLow(new) THEN flag ELSE FALSE

\* variant: the else branch of lines 117-119 missing, the flag is never reset
NextLowFlag_NoRearm(new, flag) == IF IsLow(new) THEN TRUE ELSE flag

\* variant: the flag set on `<` while the notification is decided on `<=`
NextLowFlag_Strict(new, flag) == IF new.charge < CRITICAL_CHARGE THEN TRUE ELSE FALSE

\* lines 111-119: is_low_notified after the block, when show() did not fail
NextLowFlag(new, flag) == IF IsLow(new) THEN TRUE ELSE FALSE

\* variant: line 121 missing, the first reading stays the comparison basis
StoredState_Stale(new, old) == old

\* line 121: state = new_state
StoredState(new, old) == new

\* variant: the negation of line 99 dropped
ShouldBreak_Inverted(r) == r

\* variant: the flag is never consulted
ShouldBreak_Never(r) == FALSE

\* line 99: !running.load(..)
ShouldBreak(r) == ~r

\* --------------------------------------------------------------------- Init
Init ==
    /\ pc = "start"
    /\ state = NoStatus
    /\ new_state = NoStatus
    /\ is_low_notified = FALSE
    /\ running = TRUE
    /\ handler_set = FALSE
    /\ tickRead = "none"
    /\ tickReading = NoStatus
    /\ tickStateNotif = 0
    /\ tickLowNotif = 0
    /\ tickShowErr = FALSE
    /\ tickBody = NoBody
    /\ expectChange = FALSE
    /\ lastGoodState = "None"
    /\ failStreak = 0
    /\ lowRunLen = 0
    /\ lowRunCount = 0
    /\ lowTotal = 0
    /\ startup = "none"
    /\ cancelPc = "none"
    /\ readsAfterCancel = 0
    /\ notifsAfterCancel = 0

\* ------------------------------------------------------------- main thread
\* line 89: get_battery_state() returned Ok(s)
InitReadOk(s) ==
    /\ pc = "start"
    /\ state' = s
    /\ lastGoodState' = s.state
    /\ startup' = IF IsLow(s) THEN "low" ELSE "high"
    /\ pc' = "install"
    /\ UNCHANGED <<new_state, is_low_notified, running, handler_set>>
    /\ UNCHANGED <<tickObs, failStreak, lowRunLen, lowRunCount, lowTotal, cancelObs>>

\* variant: the initial error is swallowed and startup goes on
InitReadErr_Continue ==
    /\ pc = "start"
    /\ pc' = "install"
    /\ UNCHANGED <<state, new_state, is_low_notified, running, handler_set>>
    /\ UNCHANGED <<tickObs, runObs, cancelObs>>
    /\ UNCHANGED startup

\* line 89: get_battery_state() returned Err, `?` returns it from main
InitReadErr ==
    /\ pc = "start"
    /\ pc' = "exit_err"
    /\ UNCHANGED <<state, new_state, is_low_notified, running, handler_set>>
    /\ UNCHANGED <<tickObs, runObs, cancelObs>>
    /\ UNCHANGED startup

\* variant: `let mut is_low_notified = true`
InstallHandlerOk_FlagTrue ==
    /\ pc = "install"
    /\ running' = TRUE
    /\ handler_set' = TRUE
    /\ is_low_notified' = TRUE
    /\ pc' = "sleep"
    /\ UNCHANGED <<state, new_state>>
    /\ UNCHANGED <<tickObs, runObs, cancelObs>>
    /\ UNCHANGED startup

\* variant: the flag seeded from the initial reading
InstallHandlerOk_Seeded ==
    /\ pc = "install"
    /\ running' = TRUE
    /\ handler_set' = TRUE
    /\ is_low_notified' = IsLow(state)
    /\ pc' = "sleep"
    /\ UNCHANGED <<state, new_state>>
    /\ UNCHANGED <<tickObs, runObs, cancelObs>>
    /\ UNCHANGED startup

\* lines 91-96: the flag is created true, the handler is installed,
\* is_low_notified is set to false and the loop is entered
InstallHandlerOk ==
    /\ pc = "install"
    /\ running' = TRUE
    /\ handler_set' = TRUE
    /\ is_low_notified' = FALSE
    /\ pc' = "sleep"
    /\ UNCHANGED <<state, new_state>>
    /\ UNCHANGED <<tickObs, runObs, cancelObs>>
    /\ UNCHANGED startup

\* line 94: set_handler failed, expect() panics
InstallHandlerErr ==
    /\ pc = "install"
    /\ pc' = "panic"
    /\ UNCHANGED <<state, new_state, is_low_notified, running, handler_set>>
    /\ UNCHANGED <<tickObs, runObs, cancelObs>>
    /\ UNCHANGED startup

\* line 98: thread::sleep returns; a new tick begins
Wake ==
    /\ pc = "sleep"
    /\ pc' = "check"
    /\ tickRead' = "none"
    /\ tickReading' = NoStatus
    /\ tickStateNotif' = 0
    /\ tickLowNotif' = 0
    /\ tickShowErr' = FALSE
    /\ tickBody' = NoBody
    /\ expectChange' = FALSE
    /\ startup' = IF tickRead = "ok" THEN "past" ELSE startup
    /\ UNCHANGED <<state, new_state, is_low_notified, running, handler_set>>
    /\ UNCHANGED <<runObs, cancelObs>>

\* lines 99-102: load the flag; break when it is false
CheckRunning ==
    /\ pc = "check"
    /\ pc' = IF ShouldBreak(running) THEN "done" ELSE "read"
    /\ UNCHANGED <<state, new_state, is_low_notified, running, handler_set>>
    /\ UNCHANGED <<tickObs, runObs, cancelObs>>
    /\ UNCHANGED startup

\* lines 104-105: get_battery_state() returned Ok(s)
ReadOk(s) ==
    /\ pc = "read"
    /\ new_state' = s
    /\ pc' = "cmp_state"
    /\ tickRead' = "ok"
    /\ tickReading' = s
    /\ expectChange' = (s.state # lastGoodState)
    /\ lastGoodState' = s.state
    /\ readsAfterCancel' = IF Cancelled THEN Min(readsAfterCancel + 1, MaxCount) ELSE readsAfterCancel
    /\ UNCHANGED <<state, is_low_notified, running, handler_set>>
    /\ UNCHANGED <<tickStateNotif, tickLowNotif, tickShowErr, tickBody>>
    /\ UNCHANGED <<failStreak, lowRunLen, lowRunCount, lowTotal, cancelPc, notifsAfterCancel>>
    /\ UNCHANGED startup

\* variant: the loop's read written with `?`, the error leaves main
ReadErr_Fatal ==
    /\ pc = "read"
    /\ pc' = "exit_err"
    /\ tickRead' = "err"
    /\ failStreak' = Min(failStreak + 1, MaxFails)
    /\ readsAfterCancel' = IF Cancelled THEN Min(readsAfterCancel + 1, MaxCount) ELSE readsAfterCancel
    /\ UNCHANGED <<state, new_state, is_low_notified, running, handler_set>>
    /\ UNCHANGED <<tickReading, tickStateNotif, tickLowNotif, tickShowErr, tickBody, expectChange>>
    /\ UNCHANGED <<lastGoodState, lowRunLen, lowRunCount, lowTotal, cancelPc, notifsAfterCancel>>
    /\ UNCHANGED startup

\* lines 104, 123: get_battery_state() returned Err; it is logged
ReadErr ==
    /\ pc = "read"
    /\ pc' = "sleep"
    /\ tickRead' = "err"
    /\ failStreak' = Min(failStreak + 1, MaxFails)
    /\ readsAfterCancel' = IF Cancelled THEN Min(readsAfterCancel + 1, MaxCount) ELSE readsAfterCancel
    /\ UNCHANGED <<state, new_state, is_low_notified, running, handler_set>>
    /\ UNCHANGED <<tickReading, tickStateNotif, tickLowNotif, tickShowErr, tickBody, expectChange>>
    /\ UNCHANGED <<lastGoodState, lowRunLen, lowRunCount, lowTotal, cancelPc, notifsAfterCancel>>
    /\ UNCHANGED startup

\* variant: the flag looked at again before the notifications, the tick
\* abandoned when it is false
StateNotif_ChecksFlag(shown) ==
    /\ pc = "cmp_state"
    /\ IF ~running
       THEN /\ shown
            /\ pc' = "done"
            /\ UNCHANGED <<tickStateNotif, notifsAfterCancel, tickShowErr, tickBody>>
       ELSE IF StateChanged(new_state, state)
       THEN /\ tickStateNotif' = Min(tickStateNotif + 1, MaxCount)
            /\ notifsAfterCancel' = IF Cancelled THEN Min(notifsAfterCancel + 1, MaxCount) ELSE notifsAfterCancel
            /\ tickShowErr' = ~shown
            /\ tickBody' = StateChangedBody(new_state.time_to_full)
            /\ pc' = IF shown THEN "cmp_low" ELSE "exit_err"
       ELSE /\ shown
            /\ pc' = "cmp_low"
            /\ UNCHANGED <<tickStateNotif, notifsAfterCancel, tickShowErr, tickBody>>
    /\ UNCHANGED <<state, new_state, is_low_notified, running, handler_set>>
    /\ UNCHANGED <<tickRead, tickReading, tickLowNotif, expectChange>>
    /\ UNCHANGED <<runObs, cancelPc, readsAfterCancel>>
    /\ UNCHANGED startup

\* lines 106-110: the state-change block; shown is the result of show()
StateNotif(shown) ==
    /\ pc = "cmp_state"
    /\ IF StateChanged(new_state, state)
       THEN /\ tickStateNotif' = Min(tickStateNotif + 1, MaxCount)
            /\ notifsAfterCancel' = IF Cancelled THEN Min(notifsAfterCancel + 1, MaxCount) ELSE notifsAfterCancel
            /\ tickShowErr' = ~shown
            /\ tickBody' = StateChangedBody(new_state.time_to_full)
            /\ pc' = IF shown THEN "cmp_low" ELSE "exit_err"
       ELSE /\ shown
            /\ pc' = "cmp_low"
            /\ UNCHANGED <<tickStateNotif, notifsAfterCancel, tickShowErr, tickBody>>
    /\ UNCHANGED <<state, new_state, is_low_notified, running, handler_set>>
    /\ UNCHANGED <<tickRead, tickReading, tickLowNotif, expectChange>>
    /\ UNCHANGED <<runObs, cancelPc, readsAfterCancel>>
    /\ UNCHANGED startup

\* lines 111-121: the low-charge block, then state = new_state
LowNotifAndStore(shown) ==
    /\ pc = "cmp_low"
    /\ IF LowFires(new_state, is_low_notified)
       THEN /\ tickLowNotif' = Min(tickLowNotif + 1, MaxCount)
            /\ lowTotal' = Min(lowTotal + 1, MaxCount)
            /\ notifsAfterCancel' = IF Cancelled THEN Min(notifsAfterCancel + 1, MaxCount) ELSE notifsAfterCancel
            /\ tickShowErr' = ~shown
       ELSE /\ shown
            /\ UNCHANGED <<tickLowNotif, lowTotal, notifsAfterCancel, tickShowErr>>
    /\ IF shown
       THEN /\ is_low_notified' = NextLowFlag(new_state, is_low_notified)
            /\ state' = StoredState(new_state, state)
            /\ new_state' = NoStatus
            /\ pc' = "sleep"
            /\ failStreak' = 0
            /\ lowRunLen' = IF IsLow(new_state) THEN Min(lowRunLen + 1, MaxRun) ELSE 0
            /\ lowRunCount' = IF IsLow(new_state)
                              THEN (IF LowFires(new_state, is_low_notified)
                                    THEN Min(lowRunCount + 1, MaxCount) ELSE lowRunCount)
                              ELSE 0
       ELSE /\ pc' = "exit_err"
            /\ lowRunCount' = Min(lowRunCount + 1, MaxCount)
            /\ UNCHANGED <<is_low_notified, state, new_state, failStreak, lowRunLen>>
    /\ UNCHANGED <<running, handler_set>>
    /\ UNCHANGED <<tickRead, tickReading, tickStateNotif, tickBody, expectChange>>
    /\ UNCHANGED <<lastGoodState, cancelPc, readsAfterCancel>>
    /\ UNCHANGED startup

\* ----------------------------------------------------------- ctrl-c thread
\* variant: the handler toggles the flag
Cancel_Toggle ==
    /\ handler_set
    /\ pc \notin Terminal
    /\ running' = ~running
    /\ cancelPc' = IF Cancelled THEN cancelPc ELSE pc
    /\ UNCHANGED <<pc, state, new_state, is_low_notified, handler_set>>
    /\ UNCHANGED <<tickObs, runObs, readsAfterCancel, notifsAfterCancel>>
    /\ UNCHANGED startup

\* line 93: running_clone.store(false, Relaxed)
Cancel ==
    /\ handler_set
    /\ pc \notin Terminal
    /\ running' = FALSE
    /\ cancelPc' = IF Cancelled THEN cancelPc ELSE pc
    /\ UNCHANGED <<pc, state, new_state, is_low_notified, handler_set>>
    /\ UNCHANGED <<tickObs, runObs, readsAfterCancel, notifsAfterCancel>>
    /\ UNCHANGED startup

\* --------------------------------------------------------------------- Next
MainStep ==
    \/ \E s \in BatteryStatus : InitReadOk(s)
    \/ InitReadErr
    \/ InstallHandlerOk
    \/ InstallHandlerErr
    \/ Wake
    \/ CheckRunning
    \/ \E s \in BatteryStatus : ReadOk(s)
    \/ ReadErr
    \/ \E shown \in BOOLEAN : StateNotif(shown)
    \/ \E shown \in BOOLEAN : LowNotifAndStore(shown)

Next == MainStep \/ Cancel

Spec == Init /\ [][Next]_vars

\* the main thread keeps running: reads, shows and sleeps return
FairSpec == Spec /\ WF_vars(MainStep)

TypeOK ==
    /\ pc \in {"start", "install", "sleep", "check", "read", "cmp_state", "cmp_low"} \cup Terminal
    /\ state \in BatteryStatus \cup {NoStatus}
    /\ new_state \in BatteryStatus \cup {NoStatus}
    /\ is_low_notified \in BOOLEAN
    /\ running \in BOOLEAN
    /\ handler_set \in BOOLEAN

\* ------------------------------------------------------------------ claims
\* the tick's read succeeded and the state-change block has been passed
StateDecided == tickRead = "ok" /\ pc # "cmp_state"

\* C1: a tick hands a state-change notification to show() exactly once when
\* its read succeeded and the reading's charging state differs from the
\* charging state of the most recent earlier successful read, and never
\* otherwise (failed read, or equal states).
C1_StateChangeIff ==
    /\ StateDecided => tickStateNotif = (IF expectChange THEN 1 ELSE 0)
    /\ ~StateDecided => tickStateNotif = 0

\* a state change notified on the first successful read after failed reads
C1_Witness == tickStateNotif = 1 /\ failStreak >= 1 /\ pc = "cmp_low"

\* C2: over a run of completed ticks that all read at or below the threshold
\* exactly one low-charge notification is shown: it is shown only while
\* is_low_notified is false, the tick that shows it leaves the flag true, and
\* the later ticks of the run show none.
C2_OncePerLowRun ==
    /\ [](lowRunCount <= 1 /\ (lowRunLen >= 1 => lowRunCount = 1 /\ is_low_notified))
    /\ [][tickLowNotif' > tickLowNotif =>
            /\ ~is_low_notified
            /\ tickLowNotif' = 1
            /\ (pc' = "sleep" => is_low_notified')]_vars

\* a run of MaxRun low ticks with its single notification
C2_Witness == lowRunLen = MaxRun /\ lowRunCount = 1 /\ lowTotal = 1 /\ pc = "sleep"

\* a tick whose read succeeded runs to its end
TickCompletes == pc = "cmp_low" /\ pc' = "sleep"

\* C3: a completed tick that crosses from above the threshold to at or below
\* it shows one low-charge notification; the count of low-charge
\* notifications of the run then stays at one until a completed tick reads
\* above the threshold, which always leaves is_low_notified false, so that
\* the next crossing shows a notification again.
C3_RearmAndRefire ==
    /\ [][TickCompletes =>
            /\ (~IsLow(new_state) => ~is_low_notified' /\ lowRunCount' = 0)
            /\ (~IsLow(state) /\ IsLow(new_state) =>
                    tickLowNotif' = 1 /\ is_low_notified' /\ lowRunCount' = 1)]_vars
    /\ [][lowRunCount' # lowRunCount =>
            \/ lowRunCount = 0 /\ lowRunCount' = 1 /\ tickLowNotif' = 1
            \/ lowRunCount' = 0 /\ TickCompletes /\ ~IsLow(new_state)]_vars

\* the second low-charge notification, after a re-arm
C3_Witness == lowTotal = 2 /\ lowRunCount = 1 /\ lowRunLen = 1 /\ pc = "sleep"

\* C4: is_low_notified is true only while the stored status (the most recent
\* reading of a completed tick) is at or below the threshold; a stored
\* reading above the threshold always goes with a false flag.
C4_FlagImpliesLow ==
    is_low_notified => (state \in BatteryStatus /\ IsLow(state))

\* the flag reset by a reading above the threshold after a notification
C4_Witness == ~is_low_notified /\ ~IsLow(state) /\ lowTotal >= 1 /\ pc = "sleep"

\* C5: a failed read in the loop shows no notification, leaves state and
\* is_low_notified unchanged and goes back to sleep; however many reads
\* failed, the next read is compared with the last successful reading.
C5_FailedReadTransparent ==
    /\ [][(pc = "read" /\ tickRead' = "err") =>
            /\ state' = state
            /\ is_low_notified' = is_low_notified
            /\ new_state' = new_state
            /\ pc' = "sleep"
            /\ lowTotal' = lowTotal]_vars
    /\ [](tickRead = "err" => tickStateNotif = 0 /\ tickLowNotif = 0 /\ pc = "sleep")
    /\ [](pc = "read" => state.state = lastGoodState)

\* a successful read compared after MaxFails consecutive failed reads
C5_Witness == failStreak = MaxFails /\ pc = "cmp_low" /\ tickStateNotif = 1

\* C6: once the loop has been entered it ends only by observing the
\* cancellation: a failed show() does not end it.
C6_OnlyCancellationEndsLoop ==
    (handler_set /\ pc \in Terminal) => (pc = "done" /\ ~running)

\* C7: when a tick whose read succeeded is over, state holds that tick's
\* reading, whether or not show() succeeded.
C7_StateAdvancesDespiteShowErr ==
    (tickRead = "ok" /\ pc \in {"sleep"} \cup Terminal) => state = tickReading

\* C8: a cancellation requested during the sleep is seen by the check that
\* follows the wake-up: the loop exits with no battery read and no
\* notification after the request.
C8_CancelMidSleep ==
    cancelPc = "sleep" =>
        /\ readsAfterCancel = 0
        /\ notifsAfterCancel = 0
        /\ pc \in {"sleep", "check", "done"}

\* the loop stopped by a request made during a sleep, after some ticks ran
C8_Witness == cancelPc = "sleep" /\ pc = "done" /\ lowTotal >= 1

\* C9: after a cancellation request the main thread eventually terminates,
\* and the check that observes the request ends the program in "done",
\* exit status 0.
C9_CancelTerminatesCleanly ==
    /\ Cancelled ~> (pc \in Terminal)
    /\ [][(pc = "check" /\ ~running /\ pc' # pc) =>
            (pc' = "done" /\ ExitCode(pc') = 0)]_vars

\* clean exit after a request that arrived in the middle of a tick
C9_Witness == pc = "done" /\ cancelPc = "cmp_state" /\ ExitCode(pc) = 0

\* C10: when the initial read fails main returns the error at once: the
\* handler is not installed, the loop is not entered, no read and no
\* notification follows.
C10_InitFailFast ==
    (state = NoStatus /\ pc # "start") =>
        /\ pc = "exit_err"
        /\ ExitCode(pc) # 0
        /\ ~handler_set
        /\ tickRead = "none"
        /\ tickStateNotif = 0 /\ tickLowNotif = 0 /\ lowTotal = 0

\* the program ended by the failed initial read
C10_Witness == pc = "exit_err" /\ state = NoStatus /\ ~handler_set

\* ---------------------------------------------------------------- scenario
\* The run of readings: the initial read, then ticks 1, 2 and 4; the read of
\* tick 3 fails.  time_to_full is left open.
ScenReading(st, ch) == {r \in [state : {st}, time_to_full : TimesToFull, charge : {ch}] : TRUE}

ScenInitial == ScenReading("Discharging", 50)
ScenTick1 == ScenReading("Discharging", 10)
ScenTick2 == ScenReading("Charging", 20)
ScenTick4 == ScenReading("Charging", 5)

\* the reading the battery gives next, from what the loop has stored so far
ScenNextReading ==
    IF state \in ScenInitial THEN ScenTick1
    ELSE IF state \in ScenTick1 THEN ScenTick2
    ELSE IF state \in ScenTick2 /\ failStreak = 1 THEN ScenTick4
    ELSE {}

\* the read of tick 3 is the one that fails
ScenReadFails == state \in ScenTick2 /\ failStreak = 0

ScenInitRead == \E s \in ScenInitial : InitReadOk(s)
ScenReadOk == \E s \in ScenNextReading : ReadOk(s)
ScenReadErr == ScenReadFails /\ ReadErr

ScenNext ==
    \/ ScenInitRead
    \/ InstallHandlerOk
    \/ Wake
    \/ CheckRunning
    \/ ScenReadOk
    \/ ScenReadErr
    \/ \E shown \in BOOLEAN : StateNotif(shown)
    \/ \E shown \in BOOLEAN : LowNotifAndStore(shown)
    \/ Cancel

ScenarioSpec == Init /\ [][ScenNext]_vars

\* C11: in the run initial {Discharging, 50%}, tick 1 {Discharging, 10%},
\* tick 2 {Charging, 20%}, tick 3 failed read, tick 4 {Charging, 5%}:
\* tick 1 shows one low-charge notification and no state-change one and ends
\* with the flag true; tick 2 shows one state-change notification and no
\* low-charge one and ends with the flag false; tick 3 shows nothing and
\* leaves state and flag as they were; tick 4 shows one low-charge
\* notification and no state-change one.
C11_Scenario ==
    /\ tickReading \in ScenTick1 => tickStateNotif = 0 /\ tickLowNotif <= 1
    /\ tickReading \in ScenTick2 => tickLowNotif = 0 /\ tickStateNotif <= 1
    /\ tickReading \in ScenTick4 => tickStateNotif = 0 /\ tickLowNotif <= 1
    /\ (pc = "sleep" /\ tickReading \in ScenTick1) =>
            tickLowNotif = 1 /\ is_low_notified /\ state = tickReading
    /\ (pc = "sleep" /\ tickReading \in ScenTick2) =>
            tickStateNotif = 1 /\ ~is_low_notified /\ state = tickReading
    /\ tickRead = "err" =>
            /\ tickStateNotif = 0 /\ tickLowNotif = 0
            /\ state \in ScenTick2 /\ ~is_low_notified /\ pc = "sleep"
    /\ (pc = "sleep" /\ tickReading \in ScenTick4) =>
            tickLowNotif = 1 /\ is_low_notified /\ state = tickReading /\ lowTotal = 2

\* the end of tick 4, after the failed read of tick 3
C11_Witness ==
    pc = "sleep" /\ tickReading \in ScenTick4 /\ tickLowNotif = 1 /\ lowTotal = 2

\* C12: the body of a state-change notification is there only when the new
\* reading's time_to_full is there, and then shows the minute of the hour,
\* (seconds / 60) mod 60 with integer division: a value in 0..59, 5 for
\* 7500 seconds and not 125.
MinuteOfHour(secs, body) ==
    /\ body \in 0..59
    /\ \E h \in 0..(secs \div 3600) :
           /\ secs >= h * 3600 + body * 60
           /\ secs < h * 3600 + body * 60 + 60

C12_MinuteOfHour ==
    /\ pc = "start" =>
        /\ StateChangedBody(NoTime) = NoBody
        /\ StateChangedBody(7500) = 5
        /\ \A secs \in 0..MaxSecs : MinuteOfHour(secs, StateChangedBody(secs))
    /\ tickStateNotif = 0 => tickBody = NoBody
    /\ tickStateNotif = 1 =>
        LET secs == tickReading.time_to_full IN
        /\ (tickBody = NoBody) = (secs = NoTime)
        /\ secs # NoTime => MinuteOfHour(secs, tickBody)
        /\ secs = 7500 => tickBody = 5

\* a state-change notification for a reading with more than an hour to full
C12_Witness ==
    tickStateNotif = 1 /\ tickReading.time_to_full >= 3600 /\ tickBody \in 0..59

\* no tick with a successful read has been completed before the current one
FirstTicks == startup \in {"low", "high"}

\* C13: is_low_notified starts false whatever the initial reading is, and
\* nothing is shown before the first read of the loop succeeds; a device that
\* starts at or below the threshold gets exactly one low-charge notification
\* in the first completed tick that reads at or below the threshold.
C13_StartupAsymmetry ==
    /\ [](FirstTicks /\ tickRead # "ok" =>
            /\ ~is_low_notified
            /\ lowTotal = 0 /\ tickStateNotif = 0 /\ tickLowNotif = 0)
    /\ [](startup = "low" /\ tickRead = "ok" /\ pc = "sleep" /\ IsLow(state) =>
            tickLowNotif = 1 /\ lowTotal = 1 /\ is_low_notified)
    /\ [][TickCompletes /\ lowTotal = 0 /\ IsLow(new_state) =>
            lowTotal' = 1 /\ tickLowNotif' = 1]_vars

\* started low, first completed tick still low: notified once
C13_Witness ==
    /\ startup = "low" /\ tickRead = "ok" /\ pc = "sleep"
    /\ IsLow(state) /\ tickLowNotif = 1 /\ tickStateNotif = 0

\* the loop has been entered and no tick has begun
JustInitialized == pc = "sleep" /\ FirstTicks /\ tickRead = "none" /\ failStreak = 0

C15_LowIndependentOfStateNotif ==
    /\ (tickRead = "ok" /\ pc = "exit_err" /\ IsLow(tickReading) /\ ~is_low_notified) =>
            tickLowNotif = 1
    /\ (tickRead = "ok" /\ pc \in {"sleep", "exit_err"} /\ ~IsLow(tickReading)) =>
            tickLowNotif = 0

MidTick == {"read", "cmp_state", "cmp_low"}

\* C16: the handler and the loop share the flag only: a step that changes
\* running takes it from true to false and changes nothing else of the
\* program; the main thread never changes it once the handler is installed;
\* once false it stays false.
C16_FlagOnlyShared ==
    /\ [][running' # running =>
            /\ running /\ ~running'
            /\ pc' = pc /\ state' = state /\ new_state' = new_state
            /\ is_low_notified' = is_low_notified /\ handler_set' = handler_set]_vars
    /\ [][(handler_set /\ pc' # pc) => running' = running]_vars
    /\ [][~running => ~running']_vars
    /\ [](Cancelled = ~running)

\* the handler ran in the middle of a tick that then went on
C16_Witness == ~running /\ cancelPc = "cmp_state" /\ pc = "cmp_low" /\ tickStateNotif = 1

\* C17: the flag is looked at only by the check after the sleep: a request
\* that arrives after that check leaves the tick to finish its read, its
\* notifications and the store; at most one battery read follows the request
\* (none when the read was already made); the loop is left only at the check.
C17_CancelSeenAtNextCheck ==
    /\ [](Cancelled => readsAfterCancel <= (IF cancelPc = "read" THEN 1 ELSE 0))
    /\ [][(pc' = "done" /\ pc # "done") => (pc = "check" /\ ~running)]_vars
    /\ []((cancelPc \in MidTick /\ pc = "sleep" /\ tickRead = "ok") =>
            /\ state = tickReading
            /\ tickStateNotif = (IF expectChange THEN 1 ELSE 0)
            /\ tickLowNotif = (IF IsLow(state) /\ lowRunLen = 1 THEN 1 ELSE 0))

\* a tick that was cancelled before its read and still read, notified and stored
C17_Witness ==
    /\ cancelPc = "read" /\ pc = "sleep" /\ tickRead = "ok"
    /\ readsAfterCancel = 1 /\ notifsAfterCancel = 2 /\ state = tickReading

TickBoundary == pc \in {"sleep", "check", "read", "done"}

\* C18: after a completed tick whose read succeeded, is_low_notified equals
\* (state.charge <= CRITICAL_CHARGE); at a tick boundary the two differ only
\* before the first such tick, the flag being false over a low initial
\* reading.
C18_FlagEqualsLow ==
    /\ (pc = "sleep" /\ tickRead = "ok") => (is_low_notified = IsLow(state))
    /\ (TickBoundary /\ is_low_notified # IsLow(state)) =>
            /\ ~is_low_notified
            /\ startup = "low"
            /\ tickRead # "ok"
            /\ lowTotal = 0

\* the first completed tick of a device that started low: the flag now agrees
C18_Witness ==
    /\ pc = "sleep" /\ tickRead = "ok" /\ startup = "low"
    /\ is_low_notified /\ IsLow(state) /\ tickStateNotif = 1

====
